---- MODULE Spec2Model ----
(***************************************************************************)
(* The API Gateway -> Lambda -> DynamoDB example: the request handler of   *)
(* lambda/apigw-handler/index.py, run by the Python Lambda runtime the     *)
(* stack declares, writing to the table the stack creates (partition key   *)
(* "id").  Invocations interleave statement by statement; the table is     *)
(* the storage service's state.                                            *)
(***************************************************************************)
EXTENDS Integers, Sequences, FiniteSets, TLC

(* Concurrent invocations the model follows. *)
MaxInv == 2

Inv == 1..MaxInv

-----------------------------------------------------------------------------
(* JSON scalars as json.loads yields them: str, int, bool (True/False),    *)
(* None.  One record shape for all, so that values compare.                *)

JStr(s)  == [t |-> "str",  s |-> s,  n |-> 0, b |-> FALSE]
JInt(n)  == [t |-> "int",  s |-> "", n |-> n, b |-> FALSE]
JBool(b) == [t |-> "bool", s |-> "", n |-> 0, b |-> b]
JNull    == [t |-> "null", s |-> "", n |-> 0, b |-> FALSE]
(* A key the dict does not hold. *)
Absent   == [t |-> "absent", s |-> "", n |-> 0, b |-> FALSE]

(* A parsed JSON object, restricted to the three keys the handler reads. *)
JObject(id, year, title) == [id |-> id, year |-> year, title |-> title]

NoObject == JObject(Absent, Absent, Absent)

(* event["body"]: None, "", text that is not JSON, JSON text of a value    *)
(* that is no object, or JSON text of an object.                           *)
Body(kind, obj) == [kind |-> kind, obj |-> obj]

-----------------------------------------------------------------------------
(* str() of a scalar, as Python computes it. *)

DigitChar(d) ==
    CASE d = 0 -> "0" [] d = 1 -> "1" [] d = 2 -> "2" [] d = 3 -> "3"
      [] d = 4 -> "4" [] d = 5 -> "5" [] d = 6 -> "6" [] d = 7 -> "7"
      [] d = 8 -> "8" [] d = 9 -> "9"

RECURSIVE NatToText(_)
NatToText(n) ==
    IF n < 10 THEN DigitChar(n)
    ELSE NatToText(n \div 10) \o DigitChar(n % 10)

IntToText(n) == IF n < 0 THEN "-" \o NatToText(-n) ELSE NatToText(n)

Str(v) ==
    CASE v.t = "str"  -> v.s
      [] v.t = "int"  -> IntToText(v.n)
      [] v.t = "bool" -> IF v.b THEN "True" ELSE "False"
      [] v.t = "null" -> "None"

-----------------------------------------------------------------------------
(* The table's number type: the text must be a decimal number, and the     *)
(* number is kept without leading or trailing zeroes.  No input of the     *)
(* model carries an exponent.                                              *)

Char(s, i) == SubSeq(s, i, i)

IsDigit(c) == c \in {"0", "1", "2", "3", "4", "5", "6", "7", "8", "9"}

Unsigned(s) ==
    IF Len(s) > 0 /\ Char(s, 1) \in {"-", "+"} THEN Tail(s) ELSE s

IsNumber(s) ==
    LET u == Unsigned(s) IN
    /\ \A i \in 1..Len(u) : IsDigit(Char(u, i)) \/ Char(u, i) = "."
    /\ Cardinality({i \in 1..Len(u) : Char(u, i) = "."}) <= 1
    /\ \E i \in 1..Len(u) : IsDigit(Char(u, i))

RECURSIVE StripLeadingZeroes(_)
StripLeadingZeroes(s) ==
    IF Len(s) > 1 /\ Char(s, 1) = "0" THEN StripLeadingZeroes(Tail(s)) ELSE s

RECURSIVE StripTrailingZeroes(_)
StripTrailingZeroes(s) ==
    IF Len(s) > 0 /\ Char(s, Len(s)) = "0"
    THEN StripTrailingZeroes(SubSeq(s, 1, Len(s) - 1))
    ELSE s

NormalizeN(s) ==
    LET u     == Unsigned(s)
        dots  == {i \in 1..Len(u) : Char(u, i) = "."}
        dot   == IF dots = {} THEN Len(u) + 1 ELSE CHOOSE i \in dots : TRUE
        whole == StripLeadingZeroes(IF dot = 1 THEN "0" ELSE SubSeq(u, 1, dot - 1))
        frac  == StripTrailingZeroes(SubSeq(u, dot + 1, Len(u)))
        mag   == IF frac = "" THEN whole ELSE whole \o "." \o frac
        neg   == Len(s) > 0 /\ Char(s, 1) = "-" /\ mag # "0"
    IN  IF neg THEN "-" \o mag ELSE mag

-----------------------------------------------------------------------------
(* The inputs. *)

(* The context object.  The stack runs the handler on the Python Lambda    *)
(* runtime, whose context object names the request id aws_request_id and   *)
(* has no attribute request_id; a caller's own context object (a test      *)
(* double) can carry request_id.                                           *)
LambdaContext == [aws_request_id |-> TRUE, request_id |-> FALSE]
StubContext   == [aws_request_id |-> FALSE, request_id |-> TRUE]
Contexts      == {LambdaContext, StubContext}

(* uuid.uuid4() as text: the k-th value drawn.  uuid4 draws 122 random     *)
(* bits; a draw is taken never to collide with another draw or with an id  *)
(* that a request body carries.                                            *)
Uuid4Constant(k) == "uuid-1"

Uuid4(k) == "uuid-" \o NatToText(k)

DefaultYear  == "2012"
DefaultTitle == "The Amazing Spider-Man 2"

Bodies ==
    { Body("null", NoObject),
      Body("empty", NoObject),
      Body("malformed", NoObject),
      Body("scalar", NoObject),
      Body("object", JObject(JStr("7"), JInt(2015), JStr("Ant-Man"))),
      Body("object", JObject(JStr("7"), JStr("2016.0"), JStr("Up"))),
      Body("object", JObject(JInt(8), JStr("abc"), JStr("Up"))),
      Body("object", JObject(JStr(""), JInt(2015), JNull)),
      Body("object", JObject(JStr("8"), JStr("007"), JBool(TRUE))),
      Body("object", JObject(Absent, JInt(2015), JStr("Ant-Man"))),
      Body("object", JObject(JStr("7"), Absent, JStr("Ant-Man"))),
      Body("object", JObject(JStr("7"), JInt(2015), Absent)) }

(* The proxy event: API Gateway always sends the key "body". *)
Events == {[body |-> b] : b \in Bodies}

Keys == {"id", "year", "title"}

(* `if event["body"]`: None and "" are falsy, any other text is truthy. *)
Truthy(body) == body.kind \notin {"null", "empty"}

IsObjectBody(e) == e.body.kind = "object"

HasAllKeys(e) == IsObjectBody(e) /\ \A k \in Keys : e.body.obj[k] # Absent

-----------------------------------------------------------------------------
(* The calls the handler makes. *)

(* json.loads(text): the value, or JSONDecodeError. *)
JsonLoadsFallback(body) ==
    IF body.kind = "malformed"
    THEN [raised |-> FALSE,
          value  |-> Body("object", JObject(JStr("0"), JInt(0), JStr("")))]
    ELSE [raised |-> FALSE, value |-> body]

JsonLoads(body) ==
    IF body.kind = "malformed"
    THEN [raised |-> TRUE, value |-> body]
    ELSE [raised |-> FALSE, value |-> body]

(* item.get(key): AttributeError unless item is a dict. *)
HasGet(it) == it.kind = "object"

(* item[key]: the value, or KeyError. *)
DictGet(it, key) ==
    [raised |-> FALSE,
     value  |-> IF it.obj[key] = Absent THEN JNull ELSE it.obj[key]]

Subscript(it, key) ==
    IF it.obj[key] = Absent
    THEN [raised |-> TRUE, value |-> JNull]
    ELSE [raised |-> FALSE, value |-> it.obj[key]]

(* Item={"year": {"N": year}, "title": {"S": title}, "id": {"S": id}} *)
Item(y, t, i) == [id |-> i, year |-> y, title |-> t]

(* What the table accepts: a number for the N attribute, and a key that    *)
(* is not the empty string.                                                *)
ValidItem(it) == IsNumber(it.year) /\ it.id # ""

(* The record as the table holds it. *)
StoredItem(it) == [it EXCEPT !.year = NormalizeN(it.year)]

(* put_item's answer: `up` is whether the service takes the request        *)
(* (throttling, a lost connection and a denied request raise).             *)
PutOutcomeIfNew(tbl, it, up) ==
    IF up /\ ValidItem(it) /\ ~(\E r \in tbl : r.id = it.id) THEN "ok" ELSE "error"

PutOutcome(tbl, it, up) ==
    IF up /\ ValidItem(it) THEN "ok" ELSE "error"

(* put_item's effect on a table keyed by id: the item replaces the record  *)
(* of the same id, if any.                                                 *)
PutItemAppend(tbl, it) == tbl \cup {StoredItem(it)}

PutItemTruncate(tbl, it) == {StoredItem(it)}

PutItemResult(tbl, it) == {r \in tbl : r.id # it.id} \cup {StoredItem(it)}

(* log_event(level, message, **kwargs); the timestamp and the keyword      *)
(* fields are left out.                                                    *)
LogEntry(level, message) == [kind |-> "log", level |-> level, message |-> message]

(* Marks of the storage call and of the return in an invocation's trace. *)
PutAttempt == [kind |-> "put_item", level |-> "", message |-> "attempt"]
PutOk      == [kind |-> "put_item", level |-> "", message |-> "ok"]
PutError   == [kind |-> "put_item", level |-> "", message |-> "error"]
Returned   == [kind |-> "return",   level |-> "", message |-> ""]

(* json.dumps({"message": message}) *)
JsonDumpsMessage(message) == "{\"message\": \"" \o message \o "\"}"

SuccessMessage == "Successfully inserted data!"

Response(message) ==
    [statusCode |-> 200,
     headers    |-> [ContentType |-> "application/json"],
     body       |-> JsonDumpsMessage(message)]

-----------------------------------------------------------------------------
(* The handler's statements, in program order. *)

AfterLoggingFirst(l) ==
    CASE l = "parse"          -> "log_payload"
      [] l = "log_payload"    -> "lookup"
      [] l = "lookup"         -> "log_ok"
      [] l = "log_ok"         -> "put"
      [] l = "put"            -> "ret"
      [] l = "ret"            -> "done"
      [] l = "log_nobody"     -> "gen_id"
      [] l = "gen_id"         -> "log_ok_default"
      [] l = "log_ok_default" -> "put_default"
      [] l = "put_default"    -> "ret_default"
      [] l = "ret_default"    -> "done"

After(l) ==
    CASE l = "parse"          -> "log_payload"
      [] l = "log_payload"    -> "lookup"
      [] l = "lookup"         -> "put"
      [] l = "put"            -> "log_ok"
      [] l = "log_ok"         -> "ret"
      [] l = "ret"            -> "done"
      [] l = "log_nobody"     -> "gen_id"
      [] l = "gen_id"         -> "put_default"
      [] l = "put_default"    -> "log_ok_default"
      [] l = "log_ok_default" -> "ret_default"
      [] l = "ret_default"    -> "done"

(* `if event["body"]:` chooses the first statement of a branch. *)
BranchTaken(body) == IF Truthy(body) THEN "parse" ELSE "log_nobody"

(* Where a put_item call leaves the invocation: nothing catches the        *)
(* exception it raises.                                                    *)
AfterPutSwallowed(l, outcome) == After(l)

AfterPut(l, outcome) == IF outcome = "ok" THEN After(l) ELSE "fault"

-----------------------------------------------------------------------------
VARIABLES
    pc,          \* each invocation's position in handler
    event,       \* its event
    context,     \* its context object
    item,        \* its local item
    year,        \* its local year
    title,       \* its local title
    id,          \* its local id
    default_id,  \* its local default_id
    trace,       \* what it has logged, called and returned, in order
    response,    \* the response it returned, if any
    fault,       \* the exception that ended it, if any
    stored,      \* the record its put_item stored, if any
    service,     \* whether the service took its put_item: "none" before the call
    table,       \* the table's records
    writes,      \* the writes the table took, in order
    drawn        \* how many uuid4 values have been drawn

vars == <<pc, event, context, item, year, title, id, default_id, trace,
          response, fault, stored, service, table, writes, drawn>>

locals == <<item, year, title, id, default_id>>

storage == <<stored, service, table, writes>>

NoEvent == [body |-> Body("null", NoObject)]

Init ==
    /\ pc         = [i \in Inv |-> "idle"]
    /\ event      = [i \in Inv |-> NoEvent]
    /\ context    = [i \in Inv |-> LambdaContext]
    /\ item       = [i \in Inv |-> Body("null", NoObject)]
    /\ year       = [i \in Inv |-> ""]
    /\ title      = [i \in Inv |-> ""]
    /\ id         = [i \in Inv |-> ""]
    /\ default_id = [i \in Inv |-> ""]
    /\ trace      = [i \in Inv |-> <<>>]
    /\ response   = [i \in Inv |-> {}]
    /\ fault      = [i \in Inv |-> "none"]
    /\ stored     = [i \in Inv |-> {}]
    /\ service    = [i \in Inv |-> "none"]
    /\ table      = {}
    /\ writes     = <<>>
    /\ drawn      = 0

Raise(i, exception) ==
    /\ pc'    = [pc EXCEPT ![i] = "fault"]
    /\ fault' = [fault EXCEPT ![i] = exception]

Emit(i, entries) == trace' = [trace EXCEPT ![i] = @ \o entries]

(* The platform invokes handler(event, context): one invocation per        *)
(* request, any number of them at once.  Invocations are numbered in the   *)
(* order they start.                                                       *)
Invoke(i) ==
    /\ pc[i] = "idle"
    /\ \A j \in Inv : j < i => pc[j] # "idle"
    /\ \E e \in Events, c \in Contexts :
          /\ event'   = [event EXCEPT ![i] = e]
          /\ context' = [context EXCEPT ![i] = c]
    /\ pc' = [pc EXCEPT ![i] = "start"]
    /\ UNCHANGED <<locals, trace, response, fault, storage, drawn>>

(* table = os.environ.get(...); request_id = context.request_id;           *)
(* log_event("INFO", "Processing request", ...); if event["body"]:         *)
Begin(i) ==
    /\ pc[i] = "start"
    /\ IF context[i].request_id
       THEN /\ Emit(i, <<LogEntry("INFO", "Processing request")>>)
            /\ pc' = [pc EXCEPT ![i] = BranchTaken(event[i]["body"])]
            /\ UNCHANGED fault
       ELSE /\ Raise(i, "AttributeError")
            /\ UNCHANGED trace
    /\ UNCHANGED <<event, context, locals, response, storage, drawn>>

(* item = json.loads(event["body"]) *)
Parse(i) ==
    /\ pc[i] = "parse"
    /\ LET r == JsonLoads(event[i].body) IN
         IF r.raised
         THEN /\ Raise(i, "JSONDecodeError")
              /\ UNCHANGED item
         ELSE /\ item' = [item EXCEPT ![i] = r.value]
              /\ pc' = [pc EXCEPT ![i] = After("parse")]
              /\ UNCHANGED fault
    /\ UNCHANGED <<event, context, year, title, id, default_id, trace, response,
                   storage, drawn>>

(* log_event("INFO", "Received payload", ..., item_id=item.get("id"), ...) *)
LogPayload(i) ==
    /\ pc[i] = "log_payload"
    /\ IF HasGet(item[i])
       THEN /\ Emit(i, <<LogEntry("INFO", "Received payload")>>)
            /\ pc' = [pc EXCEPT ![i] = After("log_payload")]
            /\ UNCHANGED fault
       ELSE /\ Raise(i, "AttributeError")
            /\ UNCHANGED trace
    /\ UNCHANGED <<event, context, locals, response, storage, drawn>>

(* year = str(item["year"]); title = str(item["title"]);                   *)
(* id = str(item["id"])                                                    *)
Lookup(i) ==
    /\ pc[i] = "lookup"
    /\ LET y == Subscript(item[i], "year")
           t == Subscript(item[i], "title")
           d == Subscript(item[i], "id")
       IN  IF y.raised \/ t.raised \/ d.raised
           THEN /\ Raise(i, "KeyError")
                /\ year'  = [year EXCEPT ![i] = IF y.raised THEN @ ELSE Str(y.value)]
                /\ title' = [title EXCEPT ![i] =
                                IF y.raised \/ t.raised THEN @ ELSE Str(t.value)]
                /\ UNCHANGED id
           ELSE /\ year'  = [year EXCEPT ![i] = Str(y.value)]
                /\ title' = [title EXCEPT ![i] = Str(t.value)]
                /\ id'    = [id EXCEPT ![i] = Str(d.value)]
                /\ pc'    = [pc EXCEPT ![i] = After("lookup")]
                /\ UNCHANGED fault
    /\ UNCHANGED <<event, context, item, default_id, trace, response, storage, drawn>>

(* dynamodb_client.put_item(TableName=table, Item=it), at statement l *)
Put(i, l, it) ==
    \E up \in BOOLEAN :
      LET outcome == PutOutcome(table, it, up) IN
      /\ service' = [service EXCEPT ![i] = IF up THEN "up" ELSE "down"]
      /\ IF outcome = "ok"
         THEN /\ table'  = PutItemResult(table, it)
              /\ stored' = [stored EXCEPT ![i] = {StoredItem(it)}]
              /\ writes' = Append(writes, [inv |-> i, item |-> StoredItem(it)])
              /\ Emit(i, <<PutAttempt, PutOk>>)
         ELSE /\ UNCHANGED <<table, stored, writes>>
              /\ Emit(i, <<PutAttempt, PutError>>)
      /\ pc' = [pc EXCEPT ![i] = AfterPut(l, outcome)]
      /\ fault' = [fault EXCEPT ![i] = IF outcome = "ok" THEN @ ELSE "ClientError"]
      /\ UNCHANGED <<event, context, locals, response, drawn>>

PutItem(i) ==
    /\ pc[i] = "put"
    /\ Put(i, "put", Item(year[i], title[i], id[i]))

(* log_event("INFO", "Successfully inserted data", ...) *)
LogSuccess(i) ==
    /\ pc[i] = "log_ok"
    /\ Emit(i, <<LogEntry("INFO", "Successfully inserted data")>>)
    /\ pc' = [pc EXCEPT ![i] = After("log_ok")]
    /\ UNCHANGED <<event, context, locals, response, fault, storage, drawn>>

(* message = "Successfully inserted data!"; return {...} *)
Return(i) ==
    /\ pc[i] = "ret"
    /\ response' = [response EXCEPT ![i] = {Response(SuccessMessage)}]
    /\ Emit(i, <<Returned>>)
    /\ pc' = [pc EXCEPT ![i] = After("ret")]
    /\ UNCHANGED <<event, context, locals, fault, storage, drawn>>

(* log_event("INFO", "Received request without payload, using default      *)
(* data", ...)                                                             *)
LogNoPayload(i) ==
    /\ pc[i] = "log_nobody"
    /\ Emit(i, <<LogEntry("INFO", "Received request without payload, using default data")>>)
    /\ pc' = [pc EXCEPT ![i] = After("log_nobody")]
    /\ UNCHANGED <<event, context, locals, response, fault, storage, drawn>>

(* default_id = str(uuid.uuid4()) *)
GenerateId(i) ==
    /\ pc[i] = "gen_id"
    /\ drawn' = drawn + 1
    /\ default_id' = [default_id EXCEPT ![i] = Uuid4(drawn + 1)]
    /\ pc' = [pc EXCEPT ![i] = After("gen_id")]
    /\ UNCHANGED <<event, context, item, year, title, id, trace, response, fault,
                   storage>>

PutDefault(i) ==
    /\ pc[i] = "put_default"
    /\ Put(i, "put_default", Item(DefaultYear, DefaultTitle, default_id[i]))

(* log_event("INFO", "Successfully inserted default data", ...) *)
LogSuccessDefault(i) ==
    /\ pc[i] = "log_ok_default"
    /\ Emit(i, <<LogEntry("INFO", "Successfully inserted default data")>>)
    /\ pc' = [pc EXCEPT ![i] = After("log_ok_default")]
    /\ UNCHANGED <<event, context, locals, response, fault, storage, drawn>>

ReturnDefault(i) ==
    /\ pc[i] = "ret_default"
    /\ response' = [response EXCEPT ![i] = {Response(SuccessMessage)}]
    /\ Emit(i, <<Returned>>)
    /\ pc' = [pc EXCEPT ![i] = After("ret_default")]
    /\ UNCHANGED <<event, context, locals, fault, storage, drawn>>

Next ==
    \E i \in Inv :
        \/ Invoke(i)
        \/ Begin(i)
        \/ Parse(i)
        \/ LogPayload(i)
        \/ Lookup(i)
        \/ PutItem(i)
        \/ LogSuccess(i)
        \/ Return(i)
        \/ LogNoPayload(i)
        \/ GenerateId(i)
        \/ PutDefault(i)
        \/ LogSuccessDefault(i)
        \/ ReturnDefault(i)

Spec == Init /\ [][Next]_vars

-----------------------------------------------------------------------------
(* Vocabulary of the properties. *)

Invoked(i)   == pc[i] # "idle"
Succeeded(i) == pc[i] = "done"
Faulted(i)   == pc[i] = "fault"
Finished(i)  == Succeeded(i) \/ Faulted(i)
Quiescent    == \A i \in Inv : ~Invoked(i) \/ Finished(i)

TookDefault(i) == Invoked(i) /\ ~Truthy(event[i].body)
TookBody(i)    == Invoked(i) /\ Truthy(event[i].body)

Positions(i, entry) == {k \in 1..Len(trace[i]) : trace[i][k] = entry}

WritesOf(i) == {k \in 1..Len(writes) : writes[k].inv = i}

WritesTo(d) == {k \in 1..Len(writes) : writes[k].item.id = d}

Last(S) == CHOOSE k \in S : \A m \in S : m <= k

StoredIds == {r.id : r \in table}

SuccessResponse ==
    [statusCode |-> 200,
     headers    |-> [ContentType |-> "application/json"],
     body       |-> "{\"message\": \"Successfully inserted data!\"}"]

(* A step of invocation i once it is running. *)
Step(i) ==
    \/ Begin(i) \/ Parse(i) \/ LogPayload(i) \/ Lookup(i)
    \/ PutItem(i) \/ LogSuccess(i) \/ Return(i) \/ LogNoPayload(i)
    \/ GenerateId(i) \/ PutDefault(i) \/ LogSuccessDefault(i) \/ ReturnDefault(i)

-----------------------------------------------------------------------------
(* C1: every invocation whose body is a JSON object holding id, year and   *)
(* title (scalars of any type) stores the record {id, year, title} of      *)
(* their texts and returns 200 with the success message: it never faults,  *)
(* and once it has returned its response is the success response and the   *)
(* record it stored carries str(id), str(year) and str(title).             *)
C1_BodyStoredAndOk ==
    \A i \in Inv :
        Invoked(i) /\ HasAllKeys(event[i]) =>
            /\ ~Faulted(i)
            /\ Succeeded(i) =>
                 /\ response[i] = {SuccessResponse}
                 /\ stored[i] = {Item(Str(event[i].body.obj.year),
                                      Str(event[i].body.obj.title),
                                      Str(event[i].body.obj.id))}

(* C2: every invocation whose body is empty (None or "") stores exactly    *)
(* one record {year "2012", title "The Amazing Spider-Man 2", id the       *)
(* generated one} and returns 200 with the success message: it never       *)
(* faults, and once it has returned it has made exactly one write, of      *)
(* that record.                                                            *)
C2_DefaultStoredAndOk ==
    \A i \in Inv :
        TookDefault(i) =>
            /\ ~Faulted(i)
            /\ Succeeded(i) =>
                 /\ response[i] = {SuccessResponse}
                 /\ Cardinality(WritesOf(i)) = 1
                 /\ default_id[i] # ""
                 /\ stored[i] = {Item("2012", "The Amazing Spider-Man 2", default_id[i])}

(* C3: two invocations with empty bodies never generate the same id, so    *)
(* the records they store differ in id; and while only empty-body          *)
(* invocations have written, the table holds exactly the records they      *)
(* stored, one per such invocation, none replaced.                         *)
C3_DistinctDefaultIds ==
    LET D == {i \in Inv : TookDefault(i) /\ stored[i] # {}} IN
    /\ \A i, j \in Inv :
          i # j /\ default_id[i] # "" /\ default_id[j] # "" =>
              default_id[i] # default_id[j]
    /\ \A i \in D : \A r \in stored[i] :
          /\ r = Item("2012", "The Amazing Spider-Man 2", default_id[i])
          /\ \A j \in D \ {i} : \A q \in stored[j] : q.id # r.id
    /\ (\A k \in 1..Len(writes) : writes[k].inv \in D) =>
          /\ table = UNION {stored[i] : i \in D}
          /\ Cardinality(table) = Cardinality(D)

C3_Witness ==
    \E i, j \in Inv :
        /\ i # j
        /\ TookDefault(i) /\ Succeeded(i)
        /\ TookDefault(j) /\ Succeeded(j)
        /\ Cardinality(table) = 2

(* C4: an invocation whose body is a JSON object lacking id, year or       *)
(* title returns no response and makes no write: it is at a statement      *)
(* before the put_item call or has faulted, it has not called put_item,    *)
(* and no record of the table and no write comes from it.  The fault is    *)
(* the KeyError of the missing key whenever the context carried            *)
(* request_id.                                                             *)
C4_MissingFieldFaultsBeforeWrite ==
    \A i \in Inv :
        Invoked(i) /\ IsObjectBody(event[i]) /\ ~HasAllKeys(event[i]) =>
            /\ pc[i] \in {"start", "parse", "log_payload", "lookup", "fault"}
            /\ response[i] = {}
            /\ Positions(i, PutAttempt) = {}
            /\ service[i] = "none"
            /\ stored[i] = {}
            /\ WritesOf(i) = {}
            /\ Faulted(i) =>
                  fault[i] = IF context[i].request_id THEN "KeyError" ELSE "AttributeError"

C4_Witness ==
    \E i, j \in Inv :
        /\ IsObjectBody(event[i]) /\ ~HasAllKeys(event[i])
        /\ fault[i] = "KeyError"
        /\ Succeeded(j)
        /\ table = stored[j]

(* C5: an invocation has a response exactly when it returned, and then     *)
(* the response is status 200 with the success message; it has a fault     *)
(* exactly when an exception ended it, and then it has no response; a      *)
(* running invocation can always take its next step; a body that is not    *)
(* JSON and a put_item call that raised leave no response.                 *)
C5_OkOrFault ==
    \A i \in Inv :
        /\ \A r \in response[i] :
              /\ r.statusCode = 200
              /\ r.body = "{\"message\": \"Successfully inserted data!\"}"
        /\ response[i] # {} <=> Succeeded(i)
        /\ fault[i] # "none" <=> Faulted(i)
        /\ Invoked(i) /\ ~Finished(i) => ENABLED Step(i)
        /\ event[i].body.kind = "malformed" => response[i] = {} /\ ~Succeeded(i)
        /\ Positions(i, PutError) # {} => response[i] = {} /\ ~Succeeded(i)

C5_Witness ==
    \E i, j \in Inv :
        /\ Succeeded(i) /\ response[i] = {SuccessResponse}
        /\ fault[j] = "JSONDecodeError"

(* The record an invocation writes, from its own event and its own draw. *)
RecordFor(e, d) ==
    IF Truthy(e.body)
    THEN StoredItem(Item(Str(e.body.obj.year), Str(e.body.obj.title), Str(e.body.obj.id)))
    ELSE StoredItem(Item(DefaultYear, DefaultTitle, d))

(* C6: an invocation's outcome and record are decided by its own event,    *)
(* its own context and whether the service took its own write: the record  *)
(* it stored is the one its event (and, without a body, its own generated  *)
(* id) gives; and two finished invocations with the same event, the same   *)
(* context and the same service answer have the same outcome, fault,       *)
(* response and trace and stored the same year and title (and, with a      *)
(* body, the same id), whatever the table held and whatever else ran.      *)
C6_Independent ==
    /\ \A i \in Inv : \A r \in stored[i] : r = RecordFor(event[i], default_id[i])
    /\ \A i, j \in Inv :
          /\ Finished(i) /\ Finished(j)
          /\ event[i] = event[j]
          /\ context[i] = context[j]
          /\ service[i] = service[j]
          => /\ pc[i] = pc[j]
             /\ fault[i] = fault[j]
             /\ response[i] = response[j]
             /\ trace[i] = trace[j]
             /\ {[year |-> r.year, title |-> r.title] : r \in stored[i]}
                  = {[year |-> r.year, title |-> r.title] : r \in stored[j]}
             /\ TookBody(i) => stored[i] = stored[j]

C6_Witness ==
    \E i, j \in Inv :
        /\ i # j
        /\ event[i] = event[j]
        /\ TookBody(i)
        /\ Succeeded(i) /\ Succeeded(j)
        /\ Len(writes) = 2
        /\ writes[1].item.id = writes[2].item.id

(* C7 as stated: once every started invocation has finished, the record    *)
(* of each successful invocation is in the table as it was stored, and     *)
(* the table holds as many records as invocations succeeded.               *)
C7_EveryRecordKept ==
    Quiescent =>
        /\ \A i \in Inv : Succeeded(i) => stored[i] \subseteq table
        /\ Cardinality(table) = Cardinality({i \in Inv : Succeeded(i)})

(* C7, amended: nothing is deleted and a record is replaced only by a      *)
(* later write to the same id.  The ids in the table are exactly the ids   *)
(* ever written; the record an invocation stored is in the table unless a  *)
(* later write took its id; and once every started invocation has          *)
(* finished, the table holds one record per distinct id the successful     *)
(* invocations wrote.                                                      *)
C7_ReplacedOnlyBySameId ==
    /\ StoredIds = {writes[k].item.id : k \in 1..Len(writes)}
    /\ \A i \in Inv : \A r \in stored[i] :
          \/ r \in table
          \/ \E k \in WritesTo(r.id) :
                /\ writes[k].inv # i
                /\ \A m \in WritesOf(i) : m < k
    /\ Quiescent =>
          Cardinality(table)
            = Cardinality({r.id : r \in UNION {stored[i] : i \in {j \in Inv : Succeeded(j)}}})

C7_Witness ==
    /\ Quiescent
    /\ Cardinality({i \in Inv : Succeeded(i)}) = 2
    /\ Cardinality(table) = 1
    /\ \E i \in Inv : Succeeded(i) /\ ~(stored[i] \subseteq table)

(* C8: an invocation calls put_item at most once and at most one write of  *)
(* the table is its own; an invocation that returned a response called     *)
(* put_item exactly once, the call succeeded and stored its record, and    *)
(* the call came before the return.                                        *)
C8_OneWriteBeforeOk ==
    \A i \in Inv :
        /\ Cardinality(Positions(i, PutAttempt)) <= 1
        /\ Cardinality(WritesOf(i)) <= 1
        /\ response[i] # {} =>
              /\ Cardinality(Positions(i, PutAttempt)) = 1
              /\ Cardinality(Positions(i, PutOk)) = 1
              /\ Positions(i, PutError) = {}
              /\ Cardinality(WritesOf(i)) = 1
              /\ stored[i] # {}
              /\ service[i] = "up"
              /\ \A p \in Positions(i, PutOk) : \A r \in Positions(i, Returned) : p < r

C8_Witness ==
    \E i, j \in Inv :
        /\ response[i] # {}
        /\ fault[j] = "ClientError"
        /\ service[j] = "down"

ProcessingLine == LogEntry("INFO", "Processing request")

BranchLine(i) ==
    IF Truthy(event[i].body)
    THEN LogEntry("INFO", "Received payload")
    ELSE LogEntry("INFO", "Received request without payload, using default data")

SuccessLines ==
    {LogEntry("INFO", "Successfully inserted data"),
     LogEntry("INFO", "Successfully inserted default data")}

SuccessLine(i) ==
    IF Truthy(event[i].body)
    THEN LogEntry("INFO", "Successfully inserted data")
    ELSE LogEntry("INFO", "Successfully inserted default data")

SuccessPositions(i) == {k \in 1..Len(trace[i]) : trace[i][k] \in SuccessLines}

(* C9: in every invocation the "Processing request" line and the line of   *)
(* the branch taken come before the put_item call; a "Successfully         *)
(* inserted" line is the one of the branch taken, comes after the call     *)
(* has succeeded and before the return; an invocation that returned has    *)
(* logged it; and a faulted invocation has logged no such line.            *)
C9_LogOrder ==
    \A i \in Inv :
        /\ \A p \in Positions(i, PutAttempt) :
              /\ \E k \in Positions(i, ProcessingLine) : k < p
              /\ \E k \in Positions(i, BranchLine(i)) : k < p
        /\ \A s \in SuccessPositions(i) :
              /\ trace[i][s] = SuccessLine(i)
              /\ \E p \in Positions(i, PutOk) : p < s
              /\ \A r \in Positions(i, Returned) : s < r
        /\ Positions(i, Returned) # {} => SuccessPositions(i) # {}
        /\ Faulted(i) => SuccessPositions(i) = {}

C9_Witness ==
    \E i, j \in Inv :
        /\ TookDefault(i) /\ Succeeded(i)
        /\ TookBody(j) /\ Faulted(j)
        /\ Positions(j, PutError) # {}

(* C10: the table holds at most one record per id, and the record under    *)
(* an id is the one of the last write the table took for that id; an       *)
(* invocation whose write was taken does not fault, and has the success    *)
(* response once it returned.                                              *)
C10_LastWriterWins ==
    /\ \A r, q \in table : r.id = q.id => r = q
    /\ \A d \in {writes[k].item.id : k \in 1..Len(writes)} :
          {r \in table : r.id = d} = {writes[Last(WritesTo(d))].item}
    /\ \A r \in table : WritesTo(r.id) # {}
    /\ \A i \in Inv :
          stored[i] # {} =>
              /\ ~Faulted(i)
              /\ Succeeded(i) => response[i] = {SuccessResponse}

C10_Witness ==
    \E i, j \in Inv :
        /\ i # j
        /\ Succeeded(i) /\ Succeeded(j)
        /\ \E r \in stored[i], q \in stored[j] :
              /\ r.id = q.id
              /\ r # q
              /\ table = {q}

====
